---------------------------- MODULE Spec2Model ----------------------------
(***************************************************************************)
(* The autocomplete service of go-autocomplete/main.go: the index          *)
(* bootstrap (ensureIndex, run by main before it serves), the POST         *)
(* /keywords handler (upsertKeyword), the GET /suggest handler (suggest)   *)
(* and the search engine they call.  Strings are sequences of one-letter   *)
(* strings.                                                                *)
(***************************************************************************)
EXTENDS Integers, Sequences, FiniteSets, TLC

VARIABLES index, store, lastApplied, pc, boot, req, sgResp, sgOut

vars == <<index, store, lastApplied, pc, boot, req, sgResp, sgOut>>

\* ------------------------------------------------------------------ bounds
MaxRequests == 2
MaxWeight == 2
MaxEntries == 2
MaxOptions == 2

\* ----------------------------------------------------------- HTTP statuses
StatusOK == 200
StatusCreated == 201
StatusBadRequest == 400
StatusNotFound == 404
StatusMethodNotAllowed == 405
StatusInternalServerError == 500

\* ------------------------------------------------------------------ strings
Space == " "

ToLowerChar(c) == CASE c = "A" -> "a"
                    [] c = "B" -> "b"
                    [] OTHER -> c

ToLower(s) == [i \in 1..Len(s) |-> ToLowerChar(s[i])]

RECURSIVE TrimLeft(_)
TrimLeft(s) == IF s # <<>> /\ Head(s) = Space THEN TrimLeft(Tail(s)) ELSE s

RECURSIVE TrimRight(_)
TrimRight(s) == IF s # <<>> /\ s[Len(s)] = Space
                THEN TrimRight(SubSeq(s, 1, Len(s) - 1))
                ELSE s

TrimSpace(s) == TrimRight(TrimLeft(s))

\* hex.EncodeToString(sha1.Sum(b)): a digest, taken to be collision free.
Sha1Hex(bytes) == <<"sha1", bytes>>

docID(keyword) == Sha1Hex(ToLower(TrimSpace(keyword)))

\* ------------------------------------------------------- request bodies
EmptyMap == [k \in {} |-> "mobile"]

MetaKeys == {"category"}
MetaVals == {"mobile", "tablet"}
MetaMaps == UNION {[ks -> MetaVals] : ks \in SUBSET MetaKeys}

Keywords == {<<>>, <<" ">>, <<"a">>, <<" ", "A", " ">>, <<"b">>}
Queries == {<<>>, <<" ">>, <<"a">>}
Methods == {"POST", "GET"}

\* a JSON field that may be left out of the body
Absent(zero) == [present |-> FALSE, value |-> zero]
Given(v) == [present |-> TRUE, value |-> v]

JsonWeights == {Absent(0)} \cup {Given(w) : w \in (-1)..MaxWeight}
JsonMetas == {Absent(EmptyMap)} \cup {Given(m) : m \in MetaMaps}

BadBody == [bad |-> TRUE, keyword |-> <<>>, weight |-> Absent(0), meta |-> Absent(EmptyMap)]

Bodies == {BadBody} \cup
          [bad : {FALSE}, keyword : Keywords, weight : JsonWeights, meta : JsonMetas]

\* json.Decode into upsertRequest: an absent weight is 0, an absent meta is nil
DecodeUpsertRequest(body) ==
    [Keyword |-> body.keyword,
     Weight  |-> IF body.weight.present THEN body.weight.value ELSE 0,
     Meta    |-> IF body.meta.present
                 THEN [isNil |-> FALSE, map |-> body.meta.value]
                 ELSE [isNil |-> TRUE, map |-> EmptyMap]]

\* ------------------------------------------------------------ upsertKeyword
\* (a slip: the keyword tested as submitted, not trimmed)
upsertKeywordValidUntrimmed(keyword) == keyword # <<>>

\* keyword := strings.TrimSpace(req.Keyword); if keyword == "" { return error }
upsertKeywordValid(keyword) == TrimSpace(keyword) # <<>>

\* (a slip: the zero weight left as it is)
upsertWeightKeepZero(weight) == weight

\* if req.Weight == 0 { req.Weight = 1 }
upsertWeight(weight) == IF weight = 0 THEN 1 ELSE weight

\* if req.Meta == nil { req.Meta = map[string]interface{}{} }
upsertMeta(meta) == IF meta.isNil THEN EmptyMap ELSE meta.map

\* the "doc" of the update payload
upsertDoc(u) ==
    LET keyword == TrimSpace(u.Keyword)
    IN  [keyword |-> keyword,
         suggest |-> [input |-> <<keyword>>, weight |-> upsertWeight(u.Weight)],
         meta    |-> upsertMeta(u.Meta)]

\* the /keywords handler's answer, from upsertKeyword's error
keywordsStatus(upsertFailed) ==
    IF upsertFailed THEN StatusInternalServerError ELSE StatusCreated

\* the /suggest handler's check of q
suggestQueryValid(q) == TrimSpace(q) # <<>>

\* the /suggest handler's answer, from suggest's error
suggestStatus(suggestFailed) ==
    IF suggestFailed THEN StatusInternalServerError ELSE StatusOK

\* ------------------------------------------------------------------ engine
NoDoc == [keyword |-> <<>>, suggest |-> [input |-> <<>>, weight |-> 0], meta |-> EmptyMap]

\* Update API with {"doc": ..., "doc_as_upsert": true}: the partial document
\* is merged into the stored one, objects key by key, scalars and arrays
\* replaced; an absent document is created from it.
MergeObject(old, new) ==
    [k \in (DOMAIN old) \cup (DOMAIN new) |-> IF k \in DOMAIN new THEN new[k] ELSE old[k]]

MergeDoc(old, new) ==
    [keyword |-> new.keyword,
     suggest |-> [input  |-> MergeObject(old.suggest, new.suggest)["input"],
                  weight |-> MergeObject(old.suggest, new.suggest)["weight"]],
     meta    |-> MergeObject(old.meta, new.meta)]

EngineUpdate(st, id, doc) ==
    IF id \in DOMAIN st
    THEN [st EXCEPT ![id] = MergeDoc(@, doc)]
    ELSE (id :> doc) @@ st

\* what updateReq.Do can come back with
UpdateOutcomes == {"ok", "error", "transport"}

\* err != nil || res.IsError()
CallFailed(outcome) == outcome # "ok"

\* ------------------------------------------------------- suggest's decoding
Texts == {"a", "b"}
GroupNames == {"ac", "other"}

RECURSIVE SeqsUpTo(_, _)
SeqsUpTo(S, n) ==
    IF n = 0 THEN {<<>>}
    ELSE LET shorter == SeqsUpTo(S, n - 1)
         IN  shorter \cup {Append(s, x) : s \in shorter, x \in S}

OptionLists == SeqsUpTo([text : Texts], MaxOptions)
EntryLists == SeqsUpTo([options : OptionLists], MaxEntries)
OtherLists == {<<>>, <<[options |-> <<[text |-> "b"]>>]>>}

GroupsOf(gs) == {f \in [gs -> EntryLists] : "other" \in gs => f["other"] \in OtherLists}
SuggestMaps == UNION {GroupsOf(gs) : gs \in SUBSET GroupNames}

NoSuggestMap == [g \in {} |-> <<>>]

\* what es.Search can come back with: a transport error, an error status, a
\* body that does not decode, or a decoded body
SearchReplies ==
    {[kind |-> k, suggest |-> NoSuggestMap] : k \in {"transport", "error", "malformed"}}
    \cup {[kind |-> "ok", suggest |-> m] : m \in SuggestMaps}

\* for _, opt := range bucket.Options { out = append(out, opt.Text) }
RECURSIVE OptionTexts(_)
OptionTexts(options) ==
    IF options = <<>> THEN <<>>
    ELSE <<Head(options).text>> \o OptionTexts(Tail(options))

\* (a slip: each entry's texts put in front of those gathered so far)
RECURSIVE BucketTextsPrepended(_)
BucketTextsPrepended(buckets) ==
    IF buckets = <<>> THEN <<>>
    ELSE BucketTextsPrepended(Tail(buckets)) \o OptionTexts(Head(buckets).options)

\* for _, bucket := range parsed.Suggest["ac"] { ... }
RECURSIVE BucketTexts(_)
BucketTexts(buckets) ==
    IF buckets = <<>> THEN <<>>
    ELSE OptionTexts(Head(buckets).options) \o BucketTexts(Tail(buckets))

\* parsed.Suggest["ac"]: a missing key reads as the nil slice
GroupAc(m) == IF "ac" \in DOMAIN m THEN m["ac"] ELSE <<>>

\* suggest's results: out stays the nil slice until the first append
suggestResult(reply) ==
    IF reply.kind # "ok"
    THEN [failed |-> TRUE, isNil |-> TRUE, items |-> <<>>]
    ELSE LET items == BucketTexts(GroupAc(reply.suggest))
         IN  [failed |-> FALSE, isNil |-> items = <<>>, items |-> items]

\* writeJSON(suggestResponse{Suggestions: out}): the nil slice encodes as null
writeJSON(out) == [null |-> out.isNil, array |-> out.items]

\* ------------------------------------------------------------- ensureIndex
Procs == {"p1", "p2"}
Faults == {"none", "transport", "status"}

\* es.Indices.Exists: 200 when the index is there, 404 when it is not
EngineExists(idx, fault) ==
    CASE fault = "transport" -> [err |-> TRUE, status |-> 0]
      [] fault = "status"    -> [err |-> FALSE, status |-> StatusInternalServerError]
      [] OTHER -> [err |-> FALSE,
                   status |-> IF idx = "missing" THEN StatusNotFound ELSE StatusOK]

\* es.Indices.Create: refused with resource_already_exists when the index is there
EngineCreate(idx, fault) ==
    CASE fault = "transport" -> "transport"
      [] fault = "status"    -> "error"
      [] OTHER -> IF idx = "missing" THEN "ok" ELSE "exists"

\* (a slip: the creation request sent whether or not the index was found)
ensureIndexAlwaysCreate(reply) ==
    IF reply.err THEN "fail"
    ELSE IF reply.status \in {StatusOK, StatusNotFound} THEN "create"
    ELSE "fail"

\* ensureIndex after the existence check: return nil, return an error, or go on
\* to create the index
ensureIndexAfterExists(reply) ==
    IF reply.err THEN "fail"
    ELSE IF reply.status = StatusOK THEN "done"
    ELSE IF reply.status # StatusNotFound THEN "fail"
    ELSE "create"

\* ensureIndex after the creation request: err != nil or createRes.IsError()
ensureIndexAfterCreate(reply) == IF CallFailed(reply) THEN "fail" ELSE "done"

\* (a slip: the error of ensureIndex logged and the server started all the same)
mainServesAnyway(failed) == "serving"

\* main: log.Fatalf on an error of ensureIndex, else build the mux and serve
mainAfterEnsureIndex(failed) == IF failed THEN "dead" ELSE "serving"

NoBoot == [exists |-> 0, indexAtCheck |-> "none", afterSuccess |-> FALSE,
           checkFault |-> "none", createIssued |-> FALSE, create |-> "none",
           result |-> "none"]

\* a process whose ensureIndex found the index and returned nil
FoundBoot == [NoBoot EXCEPT !.exists = StatusOK, !.result = "ok"]

\* ------------------------------------------------------------------ requests
Slots == 1..MaxRequests

NilOut == [failed |-> FALSE, isNil |-> TRUE, items |-> <<>>]

NoReq == [st |-> "new", kind |-> "none", decoded |-> FALSE, raw |-> <<>>,
          rawWeight |-> Absent(0), doc |-> NoDoc, ensured |-> TRUE,
          calls |-> 0, cancelled |-> FALSE, callResult |-> "none",
          applied |-> FALSE, written |-> 0, status |-> 0,
          out |-> NilOut, body |-> writeJSON(NilOut)]

\* the context the handlers hand to upsertKeyword and suggest: main's
\* ctx := context.Background(), captured by both closures, not r.Context()
HandlerContext == "background"

\* whether the context of request r's engine call is done
CtxDone(r) == IF HandlerContext = "request" THEN req[r].cancelled ELSE FALSE

SgIdle == [done |-> FALSE, failed |-> FALSE, isNil |-> TRUE, items |-> <<>>]
SgNoReply == [kind |-> "transport", suggest |-> NoSuggestMap]

\* ------------------------------------------------------------------ actions
\* main up to the answer of es.Indices.Exists
EnsureIndexCheck(p, fault) ==
    /\ pc[p] = "start"
    /\ LET reply == EngineExists(index, fault)
           step  == ensureIndexAfterExists(reply)
           seen  == [boot[p] EXCEPT
                       !.exists = IF reply.err THEN -1 ELSE reply.status,
                       !.indexAtCheck = index,
                       !.checkFault = fault,
                       !.afterSuccess = \E q \in Procs : boot[q].result = "ok"]
       IN  IF step = "create"
           THEN /\ pc' = [pc EXCEPT ![p] = "creating"]
                /\ boot' = [boot EXCEPT ![p] = [seen EXCEPT !.createIssued = TRUE]]
           ELSE /\ pc' = [pc EXCEPT ![p] = mainAfterEnsureIndex(step = "fail")]
                /\ boot' = [boot EXCEPT ![p] =
                              [seen EXCEPT !.result = IF step = "fail" THEN "err" ELSE "ok"]]
    /\ UNCHANGED <<index, store, lastApplied, req, sgResp, sgOut>>

\* the answer of es.Indices.Create, and main after ensureIndex
EnsureIndexCreate(p, fault) ==
    /\ pc[p] = "creating"
    /\ LET reply == EngineCreate(index, fault)
           step  == ensureIndexAfterCreate(reply)
       IN  /\ index' = IF reply = "ok" THEN "fixed" ELSE index
           /\ pc' = [pc EXCEPT ![p] = mainAfterEnsureIndex(step = "fail")]
           /\ boot' = [boot EXCEPT ![p] =
                         [@ EXCEPT !.create = reply,
                                   !.result = IF step = "fail" THEN "err" ELSE "ok"]]
    /\ UNCHANGED <<store, lastApplied, req, sgResp, sgOut>>

\* the /keywords handler up to updateReq.Do
KeywordsHandler(r, p, method, body) ==
    /\ pc[p] = "serving"
    /\ req[r].st = "new"
    /\ LET got == [NoReq EXCEPT !.kind = "keywords",
                                !.ensured = (boot[p].result = "ok")]
           u   == DecodeUpsertRequest(body)
           in  == [got EXCEPT !.decoded = TRUE, !.raw = body.keyword,
                              !.rawWeight = body.weight]
       IN  req' = [req EXCEPT ![r] =
             IF method # "POST"
             THEN [got EXCEPT !.st = "done", !.status = StatusMethodNotAllowed]
             ELSE IF body.bad
             THEN [got EXCEPT !.st = "done", !.status = StatusBadRequest]
             ELSE IF ~upsertKeywordValid(u.Keyword)
             THEN [in EXCEPT !.st = "done", !.status = keywordsStatus(TRUE)]
             ELSE [in EXCEPT !.st = "calling", !.calls = 1, !.doc = upsertDoc(u)]]
    /\ UNCHANGED <<index, store, lastApplied, pc, boot, sgResp, sgOut>>

\* updateReq.Do returns, and the /keywords handler answers
UpdateReturn(r, outcome) ==
    /\ req[r].st = "calling"
    /\ req[r].kind = "keywords"
    /\ LET doc  == req[r].doc
           id   == docID(doc.keyword)
           gone == CtxDone(r)
           res  == IF gone THEN "ctx_cancelled" ELSE outcome
           new  == IF res = "ok" THEN EngineUpdate(store, id, doc) ELSE store
       IN  /\ store' = new
           /\ lastApplied' = IF res = "ok" THEN (id :> doc) @@ lastApplied
                             ELSE lastApplied
           /\ req' = [req EXCEPT ![r] =
                 [@ EXCEPT !.st = "done", !.callResult = res,
                           !.applied = (res = "ok"),
                           !.written = IF res = "ok" THEN new[id].suggest.weight ELSE 0,
                           !.status = keywordsStatus(CallFailed(res))]]
    /\ UNCHANGED <<index, pc, boot, sgResp, sgOut>>

\* the /suggest handler up to es.Search
SuggestHandler(r, p, q) ==
    /\ pc[p] = "serving"
    /\ req[r].st = "new"
    /\ LET got == [NoReq EXCEPT !.kind = "suggest", !.decoded = TRUE, !.raw = q,
                                !.ensured = (boot[p].result = "ok")]
       IN  req' = [req EXCEPT ![r] =
             IF ~suggestQueryValid(q)
             THEN [got EXCEPT !.st = "done", !.status = StatusBadRequest]
             ELSE [got EXCEPT !.st = "calling", !.calls = 1]]
    /\ UNCHANGED <<index, store, lastApplied, pc, boot, sgResp, sgOut>>

\* es.Search returns, suggest decodes the body, and the /suggest handler answers
SearchReturn(r, reply) ==
    /\ req[r].st = "calling"
    /\ req[r].kind = "suggest"
    /\ LET gone == CtxDone(r)
           out  == IF gone THEN suggestResult(SgNoReply) ELSE suggestResult(reply)
       IN  req' = [req EXCEPT ![r] =
             [@ EXCEPT !.st = "done",
                       !.callResult = IF gone THEN "ctx_cancelled" ELSE reply.kind,
                       !.out = out,
                       !.body = writeJSON(out),
                       !.status = suggestStatus(out.failed)]]
    /\ UNCHANGED <<index, store, lastApplied, pc, boot, sgResp, sgOut>>

\* the client of request r goes away while the engine call is outstanding
ClientCancel(r) ==
    /\ req[r].st = "calling"
    /\ ~req[r].cancelled
    /\ req' = [req EXCEPT ![r].cancelled = TRUE]
    /\ UNCHANGED <<index, store, lastApplied, pc, boot, sgResp, sgOut>>

\* suggest on one reply of the engine
SuggestDecode ==
    /\ ~sgOut.done
    /\ LET out == suggestResult(sgResp)
       IN  sgOut' = [done |-> TRUE, failed |-> out.failed, isNil |-> out.isNil,
                     items |-> out.items]
    /\ UNCHANGED <<index, store, lastApplied, pc, boot, req, sgResp>>

\* ------------------------------------------------------------ specifications
NoStore == [id \in {} |-> NoDoc]

\* the replies of es.Search the handlers are run against
SampleReplies ==
    {r \in SearchReplies :
        \/ r.kind # "ok"
        \/ r.suggest = NoSuggestMap
        \/ /\ DOMAIN r.suggest = {"ac"}
           /\ \/ r.suggest["ac"] = <<>>
              \/ r.suggest["ac"] = <<[options |-> <<[text |-> "a"], [text |-> "b"]>>]>>}

\* Serving: every process has run ensureIndex, found the index and serves;
\* up to MaxRequests requests are in flight at once.
ServeBodies ==
    {b \in Bodies : \/ b.bad
                    \/ /\ b.weight \in {Absent(0), Given(-1)}
                       /\ b.meta.present => b.meta.value # EmptyMap}

Init ==
    /\ index \in {"fixed", "foreign"}
    /\ store = NoStore
    /\ lastApplied = NoStore
    /\ pc = [p \in Procs |-> "serving"]
    /\ boot = [p \in Procs |-> FoundBoot]
    /\ req = [r \in Slots |-> NoReq]
    /\ sgResp = SgNoReply
    /\ sgOut = SgIdle

Next ==
    \/ \E r \in Slots, p \in Procs, m \in Methods, b \in ServeBodies :
          KeywordsHandler(r, p, m, b)
    \/ \E r \in Slots, o \in UpdateOutcomes : UpdateReturn(r, o)
    \/ \E r \in Slots, p \in Procs, q \in Queries : SuggestHandler(r, p, q)
    \/ \E r \in Slots, reply \in SampleReplies : SearchReturn(r, reply)
    \/ \E r \in Slots : ClientCancel(r)

Spec == Init /\ [][Next]_vars

\* One request, of every body and query, against a store that holds nothing
\* or the document an earlier submission left.
PriorDocs == {upsertDoc(DecodeUpsertRequest(b)) :
                 b \in {x \in Bodies : ~x.bad /\ upsertKeywordValid(x.keyword)}}
PriorStores == {NoStore} \cup {EngineUpdate(NoStore, docID(d.keyword), d) : d \in PriorDocs}

InitRequest ==
    /\ index \in {"fixed", "foreign"}
    /\ store \in PriorStores
    /\ lastApplied = store
    /\ pc = [p \in Procs |-> "serving"]
    /\ boot = [p \in Procs |-> FoundBoot]
    /\ req = [r \in Slots |-> NoReq]
    /\ sgResp = SgNoReply
    /\ sgOut = SgIdle

NextRequest ==
    \/ \E p \in Procs, m \in Methods, b \in Bodies : KeywordsHandler(1, p, m, b)
    \/ \E o \in UpdateOutcomes : UpdateReturn(1, o)
    \/ \E p \in Procs, q \in Queries : SuggestHandler(1, p, q)
    \/ \E reply \in SampleReplies : SearchReturn(1, reply)

SpecRequest == InitRequest /\ [][NextRequest]_vars

\* Start-up: two processes start against an index that is missing, was created
\* with indexMapping, or was created by someone else; each serves once its
\* ensureIndex has returned.
BootBodies == {b \in Bodies : b.keyword = <<"a">> /\ b.weight = Given(1) /\ ~b.meta.present}
BootQueries == {<<"a">>}

InitBoot ==
    /\ index \in {"missing", "fixed", "foreign"}
    /\ store = NoStore
    /\ lastApplied = NoStore
    /\ pc = [p \in Procs |-> "start"]
    /\ boot = [p \in Procs |-> NoBoot]
    /\ req = [r \in Slots |-> NoReq]
    /\ sgResp = SgNoReply
    /\ sgOut = SgIdle

NextBoot ==
    \/ \E p \in Procs, f \in Faults : EnsureIndexCheck(p, f)
    \/ \E p \in Procs, f \in Faults : EnsureIndexCreate(p, f)
    \/ \E r \in Slots, p \in Procs, b \in BootBodies : KeywordsHandler(r, p, "POST", b)
    \/ \E r \in Slots, o \in UpdateOutcomes : UpdateReturn(r, o)
    \/ \E r \in Slots, p \in Procs, q \in BootQueries : SuggestHandler(r, p, q)
    \/ \E r \in Slots, reply \in SampleReplies : SearchReturn(r, reply)

SpecBoot == InitBoot /\ [][NextBoot]_vars

\* suggest alone, on every reply of the engine within the bounds
InitSuggest ==
    /\ index = "fixed"
    /\ store = NoStore
    /\ lastApplied = NoStore
    /\ pc = [p \in Procs |-> "serving"]
    /\ boot = [p \in Procs |-> FoundBoot]
    /\ req = [r \in Slots |-> NoReq]
    /\ sgResp \in SearchReplies
    /\ sgOut = SgIdle

NextSuggest == SuggestDecode

SpecSuggest == InitSuggest /\ [][NextSuggest]_vars

\* ------------------------------------------------------------------- claims
\* a keyword or query that is empty or holds nothing but spaces
IsBlank(raw) == \A i \in 1..Len(raw) : raw[i] = " "

HandledBlank(q) == q.st # "new" /\ q.decoded /\ IsBlank(q.raw)

\* C1: after any interleaving of upserts the engine holds one document per
\* normalized keyword that was applied, and each document's keyword,
\* suggest.input, suggest.weight and meta are those of the submission applied
\* last for it.
C1_LastWriteWins ==
    /\ DOMAIN store = DOMAIN lastApplied
    /\ DOMAIN store = {docID(req[r].raw) : r \in {x \in Slots : req[x].applied}}
    /\ \A id \in DOMAIN store :
          /\ store[id].keyword = lastApplied[id].keyword
          /\ store[id].suggest.input = lastApplied[id].suggest.input
          /\ store[id].suggest.weight = lastApplied[id].suggest.weight
          /\ store[id].meta = lastApplied[id].meta

\* C2: a request is handled only by a process whose ensureIndex returned nil;
\* a process whose ensureIndex returned an error is dead and never serves, and
\* so is one whose existence check ended in a transport error or a status
\* other than 200 and 404, or whose creation request was not answered "created".
C2_NoTrafficWithoutIndex ==
    /\ \A r \in Slots : req[r].st # "new" => req[r].ensured
    /\ \A p \in Procs : boot[p].result = "err" => pc[p] = "dead"
    /\ \A p \in Procs : pc[p] = "serving" => boot[p].result = "ok"
    /\ \A p \in Procs :
          (\/ boot[p].exists \notin {0, StatusOK, StatusNotFound}
           \/ boot[p].create \notin {"none", "ok"}) => pc[p] = "dead"

C2_Witness ==
    \E r \in Slots, p \in Procs :
        /\ req[r].st = "done"
        /\ req[r].status \in {StatusOK, StatusCreated}
        /\ pc[p] = "dead"

\* C3: a request whose keyword or q is blank is answered without any call to
\* the engine: no update or search is issued for it, and the stored documents
\* are as they were.
C3_ValidationBeforeNetwork ==
    /\ [](\A r \in Slots : HandledBlank(req[r]) =>
              /\ req[r].st = "done"
              /\ req[r].calls = 0
              /\ req[r].callResult = "none"
              /\ ~req[r].applied)
    /\ [][\A r \in Slots : (req[r].st = "new" /\ HandledBlank(req'[r])) =>
              (store' = store /\ req'[r].st = "done")]_vars

C3_Witness ==
    \E r \in Slots :
        /\ HandledBlank(req[r])
        /\ req[r].raw = <<" ">>
        /\ req[r].kind = "keywords"
        /\ req[r].st = "done"
        /\ store # NoStore

\* C4: a blank keyword or q is answered 400, and 500 is answered only when the
\* call to the engine failed.
C4_ValidationIs400 ==
    \A r \in Slots : req[r].st = "done" =>
        /\ HandledBlank(req[r]) => req[r].status = StatusBadRequest
        /\ req[r].status = StatusInternalServerError =>
              (req[r].calls = 1 /\ CallFailed(req[r].callResult))

\* C5: an ensureIndex that saw 404 and whose creation request was answered
\* "created" or "already exists" returns nil.
C5_CreateRaceIsSuccess ==
    \A p \in Procs :
        (boot[p].exists = StatusNotFound /\ boot[p].create \in {"ok", "exists"})
            => boot[p].result = "ok"

\* the texts of the options of the entries, in order: text j of entry i sits
\* after all texts of the entries before i
RECURSIVE OptionsBefore(_, _)
OptionsBefore(entries, i) ==
    IF i <= 1 THEN 0
    ELSE OptionsBefore(entries, i - 1) + Len(entries[i - 1].options)

\* C6: on a reply that decodes, suggest returns the texts of all options of all
\* entries of group "ac", in the engine's order and nothing else; with no
\* option it returns the empty sequence and no error.
C6_SuggestFlattens ==
    (sgOut.done /\ sgResp.kind = "ok") =>
        LET ac == IF "ac" \in DOMAIN sgResp.suggest THEN sgResp.suggest["ac"] ELSE <<>>
        IN  /\ ~sgOut.failed
            /\ Len(sgOut.items) = OptionsBefore(ac, Len(ac) + 1)
            /\ \A i \in 1..Len(ac) : \A j \in 1..Len(ac[i].options) :
                  sgOut.items[OptionsBefore(ac, i) + j] = ac[i].options[j].text

C6_Witness ==
    /\ sgOut.done
    /\ sgResp.kind = "ok"
    /\ sgOut.items = <<"b", "a", "a">>

\* C7: every stored document has a suggest.weight of at least 1.
C7_StoredWeightPositive ==
    \A id \in DOMAIN store : store[id].suggest.weight >= 1

\* C8: the weight written for an accepted submission is 1 when the submitted
\* weight is 0 or absent, and the submitted weight when that is positive.
C8_WeightDefault ==
    \A r \in Slots : (req[r].kind = "keywords" /\ req[r].calls = 1) =>
        LET given == req[r].rawWeight
            sent  == req[r].doc.suggest.weight
        IN  /\ (~given.present \/ given.value = 0) => sent = 1
            /\ (given.present /\ given.value > 0) => sent = given.value
            /\ req[r].applied => req[r].written = sent

C8_Witness ==
    \E r \in Slots :
        /\ req[r].applied
        /\ req[r].rawWeight = Given(0)
        /\ req[r].written = 1
        /\ req[r].status = StatusCreated

\* C9: an ensureIndex that finds the index issues no creation request, leaves
\* the index as it is and returns nil; and one that starts after another has
\* returned nil, against an engine that answers, finds the index.
C9_EnsureIndexIdempotent ==
    \A p \in Procs :
        /\ boot[p].exists = StatusOK =>
              /\ ~boot[p].createIssued
              /\ boot[p].result = "ok"
              /\ index = boot[p].indexAtCheck
        /\ (boot[p].afterSuccess /\ boot[p].exists # 0 /\ boot[p].checkFault = "none") =>
              /\ boot[p].exists = StatusOK
              /\ boot[p].result = "ok"

C9_Witness ==
    \E p, q \in Procs :
        /\ p # q
        /\ boot[p].create = "ok"
        /\ boot[q].afterSuccess
        /\ boot[q].exists = StatusOK
        /\ boot[q].result = "ok"

\* C10: a request cancelled while its engine call is outstanding has that call
\* end cancelled, not run to completion.
C10_CallBoundToRequest ==
    \A r \in Slots :
        (req[r].st = "done" /\ req[r].cancelled) =>
            (req[r].callResult = "ctx_cancelled" /\ ~req[r].applied)
=============================================================================
